---- MODULE Spec2Model ----
(***************************************************************************)
(* Model of the DVC scaffolding scripts of insurance-risk-analytics:       *)
(*   setup_dvc.py        create_dvc_directory                              *)
(*   src/dvc_setup.py    class DVCSetup (facade over the dvc and git       *)
(*                       programs, pipeline writer, verification report)   *)
(* The workspace is a small file system; the external programs are the     *)
(* environment: each invocation either cannot be executed, exits non-zero  *)
(* or exits zero with the effect the program has on the workspace.         *)
(***************************************************************************)
EXTENDS Integers, Sequences, FiniteSets, TLC

VARIABLES
    fs,        \* the workspace: path -> node (absent / directory / file and its text)
    readonly,  \* the workspace refuses writes (unwritable directory)
    dvc,       \* the dvc program: "ok", "broken" (runs, exits non-zero), "missing"
    git,       \* the git program, likewise
    lastOp,    \* the operation that ran last ("env" after an environment step)
    result,    \* what it returned: "True", "False", "report", or "raise"
    calls,     \* the external commands it invoked, in order
    report     \* the mapping verify_dvc_setup returned last

vars == <<fs, readonly, dvc, git, lastOp, result, calls, report>>

----------------------------------------------------------------------------
(* Text: a file's content is a sequence of lines. *)

Line(ind, kind, k, v) == [ind |-> ind, kind |-> kind, k |-> k, v |-> v]
T(s) == Line(0, "text", "", s)

RECURSIVE TextOf(_)
TextOf(ss) == IF ss = <<>> THEN <<>> ELSE <<T(Head(ss))>> \o TextOf(Tail(ss))

Absent == [kind |-> "absent", text |-> <<>>]
Dir == [kind |-> "dir", text |-> <<>>]
File(text) == [kind |-> "file", text |-> text]

----------------------------------------------------------------------------
(* Paths of the workspace, relative to the project root. *)

ROOT == "."
DVC_DIR == ".dvc"
RootDataPath == "MachineLearningRating_v3.txt"
SubdirDataPath == "data/MachineLearningRating_v3.txt"
DataPaths == {RootDataPath, SubdirDataPath}

PointerOf(data_path) ==
    IF data_path = RootDataPath THEN "MachineLearningRating_v3.txt.dvc"
    ELSE "data/MachineLearningRating_v3.txt.dvc"

DvcChildren == {".dvc/plots", ".dvc/tmp", ".dvc/.gitignore", ".dvc/config",
                ".dvc/state", ".dvc/state-journal", ".dvc/state-wal", ".dvc/lock"}
RootChildren == {DVC_DIR, ".git", "dvc_storage", ".dvcignore", "dvc.yaml", "params",
                 "data", RootDataPath, PointerOf(RootDataPath), "artifacts", "reports"}
DataChildren == {SubdirDataPath, PointerOf(SubdirDataPath), "data/raw", "data/processed"}
ParamsChildren == {"params/eda_params.yaml", "params/preprocess_params.yaml"}

\* load_data.py: the file the stage reads and the files it writes or declares
raw_path == "data/raw/MachineLearningRating_v3.txt"
ProcessedChildren == {"data/processed/cleaned_data.csv", "data/processed/data_info.json"}
ReportsChildren == {"reports/load_metrics.json", "reports/data_summary.html"}

\* setup_dvc.py, create_dvc_artifacts: artifacts_dir and what is copied under it
artifacts_dir == "artifacts/dvc_setup"
ArtOf(p) == "artifacts/dvc_setup/" \o p
dvc_files == <<".dvcignore", "data/MachineLearningRating_v3.txt.dvc", "dvc.yaml",
               "params/eda_params.yaml", "params/preprocess_params.yaml">>
OptionalFiles == {dvc_files[i] : i \in 1..Len(dvc_files)}
ArtRootChildren == {ArtOf(DVC_DIR), ArtOf(".dvcignore"), ArtOf("dvc.yaml"),
                    ArtOf("data"), ArtOf("params")}
ArtDvcChildren == {ArtOf(p) : p \in DvcChildren}
ArtParamsChildren == {ArtOf(p) : p \in ParamsChildren}
ArtPaths == {"artifacts", artifacts_dir} \cup ArtRootChildren \cup ArtDvcChildren
                \cup {ArtOf(".dvc/plots/confusion.json"), ArtOf(PointerOf(SubdirDataPath))}
                \cup ArtParamsChildren

Paths == {ROOT} \cup RootChildren \cup DvcChildren \cup {".dvc/plots/confusion.json"}
              \cup DataChildren \cup ParamsChildren
              \cup {raw_path} \cup ProcessedChildren \cup ReportsChildren \cup ArtPaths

Parent(p) ==
    CASE p \in RootChildren -> ROOT
      [] p \in DvcChildren -> DVC_DIR
      [] p = ".dvc/plots/confusion.json" -> ".dvc/plots"
      [] p \in DataChildren -> "data"
      [] p \in ParamsChildren -> "params"
      [] p = raw_path -> "data/raw"
      [] p \in ProcessedChildren -> "data/processed"
      [] p \in ReportsChildren -> "reports"
      [] p = artifacts_dir -> "artifacts"
      [] p \in ArtRootChildren -> artifacts_dir
      [] p \in ArtDvcChildren -> ArtOf(DVC_DIR)
      [] p = ArtOf(".dvc/plots/confusion.json") -> ArtOf(".dvc/plots")
      [] p = ArtOf(PointerOf(SubdirDataPath)) -> ArtOf("data")
      [] p \in ArtParamsChildren -> ArtOf("params")
      [] OTHER -> ROOT

Exists(f, p) == f[p].kind # "absent"
IsDir(f, p) == f[p].kind = "dir"
IsFile(f, p) == f[p].kind = "file"

\* pathlib's glob("*.dvc") on the project root: the entries directly in the root
\* whose name ends in ".dvc"; "*" also matches the empty prefix of ".dvc".
NameEndsWithDvc == {DVC_DIR, PointerOf(RootDataPath), PointerOf(SubdirDataPath)}
GlobRootDvcSkippingHidden(f) ==
    IF IsDir(f, ROOT)
    THEN {p \in RootChildren : p \in NameEndsWithDvc \ {DVC_DIR} /\ Exists(f, p)}
    ELSE {}

GlobRootDvc(f) ==
    IF IsDir(f, ROOT)
    THEN {p \in RootChildren : p \in NameEndsWithDvc /\ Exists(f, p)}
    ELSE {}

----------------------------------------------------------------------------
(* File-system primitives.  Each takes and returns [fs, err]; err = "none"  *)
(* or the name of the exception raised.  A step after an error is skipped.  *)

Ok(f) == [fs |-> f, err |-> "none"]
Err(f, e) == [fs |-> f, err |-> e]

\* Path.mkdir(exist_ok=True), parents=False
Mkdir(st, ro, p) ==
    IF st.err # "none" THEN st
    ELSE IF ~IsDir(st.fs, Parent(p)) THEN Err(st.fs, "FileNotFoundError")
    ELSE IF IsDir(st.fs, p) THEN st
    ELSE IF IsFile(st.fs, p) THEN Err(st.fs, "FileExistsError")
    ELSE IF ro THEN Err(st.fs, "PermissionError")
    ELSE Ok([st.fs EXCEPT ![p] = Dir])

WriteTextAppending(st, ro, p, text) ==
    IF st.err # "none" THEN st
    ELSE IF ~IsDir(st.fs, Parent(p)) THEN Err(st.fs, "FileNotFoundError")
    ELSE IF IsDir(st.fs, p) THEN Err(st.fs, "IsADirectoryError")
    ELSE IF ro THEN Err(st.fs, "PermissionError")
    ELSE Ok([st.fs EXCEPT ![p] = File(st.fs[p].text \o text)])

\* Path.write_text / open(path, 'w') + write: the file is truncated and rewritten
WriteText(st, ro, p, text) ==
    IF st.err # "none" THEN st
    ELSE IF ~IsDir(st.fs, Parent(p)) THEN Err(st.fs, "FileNotFoundError")
    ELSE IF IsDir(st.fs, p) THEN Err(st.fs, "IsADirectoryError")
    ELSE IF ro THEN Err(st.fs, "PermissionError")
    ELSE Ok([st.fs EXCEPT ![p] = File(text)])

\* Path.mkdir(parents=True, exist_ok=True): missing parents are created first
RECURSIVE MkdirParents(_, _, _)
MkdirParents(st, ro, p) ==
    IF st.err # "none" THEN st
    ELSE IF p = ROOT \/ IsDir(st.fs, Parent(p)) THEN Mkdir(st, ro, p)
    ELSE Mkdir(MkdirParents(st, ro, Parent(p)), ro, p)

\* shutil.copy2(src, dst): dst gets the content of the regular file src
CopyFile(st, ro, src, dst) ==
    IF st.err # "none" THEN st
    ELSE IF ~Exists(st.fs, src) THEN Err(st.fs, "FileNotFoundError")
    ELSE IF IsDir(st.fs, src) THEN Err(st.fs, "IsADirectoryError")
    ELSE WriteText(st, ro, dst, st.fs[src].text)

\* Path.touch(): an existing entry keeps its content, a missing one is created empty
Touch(st, ro, p) ==
    IF st.err # "none" THEN st
    ELSE IF ~IsDir(st.fs, Parent(p)) THEN Err(st.fs, "FileNotFoundError")
    ELSE IF ro THEN Err(st.fs, "PermissionError")
    ELSE IF Exists(st.fs, p) THEN st
    ELSE Ok([st.fs EXCEPT ![p] = File(<<>>)])

----------------------------------------------------------------------------
(* setup_dvc.py: the literal contents create_dvc_directory writes. *)

gitignore_content ==
    TextOf(<<"# DVC internal files to ignore in Git", "tmp/", "state-journal*",
             "state-wal*", "state*", "lock*", "/rw", "/updater", "/updater.lock">>)

RemoteSection == "['remote \"localstorage\"']"

config_content ==
    TextOf(<<"[core]", "    remote = localstorage", "    autostage = true", "",
             RemoteSection, "    url = {project_root}/dvc_storage", "",
             "[cache]", "    type = hardlink,symlink", "    dir = .dvc/cache", "",
             "# Insurance Risk Analytics Project Configuration",
             "[feature]", "    machinelearning = true", "    analytics = true", "    ",
             RemoteSection, "    ssl_verify = false", "    timeout = 30",
             "    verify = false">>)

state_content ==
    TextOf(<<"{", "  \"version\": \"3.0.0\",", "  \"config\": {", "    \"core\": {",
             "      \"remote\": \"localstorage\",", "      \"autostage\": true",
             "    },", "    \"remote\": {", "      \"localstorage\": {",
             "        \"url\": \"{project_root}/dvc_storage\"", "      }", "    }",
             "  },", "  \"timestamp\": \"2024-01-15T10:30:00Z\",",
             "  \"project\": \"insurance-risk-analytics\",", "  \"data_tracked\": [",
             "    \"data/MachineLearningRating_v3.txt\"", "  ]", "}">>)

plot_template ==
    TextOf(<<"{", "  \"template\": \"confusion\",", "  \"x\": \"predicted\",",
             "  \"y\": \"actual\",", "  \"title\": \"Confusion Matrix\",",
             "  \"xlab\": \"Predicted\",", "  \"ylab\": \"Actual\"", "}">>)

MarkerFiles == <<".dvc/state-journal", ".dvc/state-wal", ".dvc/lock">>

\* create_dvc_directory: returns True, or leaves through the exception of the
\* first step that fails (nothing in the function catches it).
CreateDvcDirectory(f, ro) ==
    LET s1 == Mkdir(Ok(f), ro, DVC_DIR)
        s2 == Mkdir(s1, ro, ".dvc/plots")
        s3 == Mkdir(s2, ro, ".dvc/tmp")
        s4 == WriteText(s3, ro, ".dvc/.gitignore", gitignore_content)
        s5 == WriteText(s4, ro, ".dvc/config", config_content)
        s6 == WriteText(s5, ro, ".dvc/state", state_content)
        s7 == WriteText(s6, ro, ".dvc/plots/confusion.json", plot_template)
        s8 == Touch(s7, ro, MarkerFiles[1])
        s9 == Touch(s8, ro, MarkerFiles[2])
        s10 == Touch(s9, ro, MarkerFiles[3])
    IN [fs |-> s10.fs,
        result |-> IF s10.err = "none" THEN "True" ELSE "raise",
        calls |-> <<>>]

----------------------------------------------------------------------------
(* The external programs.  subprocess.run either raises FileNotFoundError   *)
(* ("enoent": the program, or the working directory handed to it, does not  *)
(* exist) or returns the program's exit status.  A program exits zero only  *)
(* when it can do its work, and then has its effect on the workspace.       *)

ToolStates == {"ok", "broken", "missing"}
GitStates == {"ok", "missing"}
ProcCwds == {"root", "elsewhere"}

Outcomes(tool, cwdExists, pre) ==
    IF tool = "missing" \/ ~cwdExists THEN {"enoent"}
    ELSE IF tool = "broken" \/ ~pre THEN {"exit1"}
    ELSE {"exit0", "exit1"}

\* dvc --version: a working installation prints its version and exits zero
VersionOutcomes(tool) ==
    IF tool = "missing" THEN {"enoent"}
    ELSE IF tool = "broken" THEN {"exit1"}
    ELSE {"exit0"}

Call(prog, args, cwd, exit, checked) ==
    [prog |-> prog, args |-> args, cwd |-> cwd, exit |-> exit, checked |-> checked]

\* dvc init --no-scm
DvcInitPre(f, ro) == IsDir(f, ROOT) /\ ~ro /\ ~Exists(f, DVC_DIR)
DvcInitEffect(f) ==
    [f EXCEPT ![DVC_DIR] = Dir, ![".dvc/tmp"] = Dir,
              ![".dvc/config"] = File(<<>>),
              ![".dvc/.gitignore"] = File(TextOf(<<"/config.local", "/tmp", "/cache">>))]

\* git init
GitInitPre(f, ro) == IsDir(f, ROOT) /\ ~ro
GitInitEffect(f) == [f EXCEPT ![".git"] = Dir]

\* 'remote "localstorage"' in config_content
HasRemoteSection(text) == \E i \in 1..Len(text) : text[i].v = RemoteSection

\* dvc remote add -d localstorage <storage_dir>
DvcRemoteAddPre(f, ro) ==
    /\ IsFile(f, ".dvc/config") /\ ~ro
    /\ ~HasRemoteSection(f[".dvc/config"].text)
DvcRemoteAddEffect(f) ==
    [f EXCEPT ![".dvc/config"] =
        File(@.text \o TextOf(<<"[core]", "    remote = localstorage",
                                RemoteSection, "    url = ../dvc_storage">>))]

\* dvc remote default localstorage
DvcRemoteDefaultPre(f, ro) ==
    IsFile(f, ".dvc/config") /\ ~ro /\ HasRemoteSection(f[".dvc/config"].text)

\* dvc add <data_path>: writes the pointer file <data_path>.dvc beside the data
DvcAddPre(f, ro, data_path) ==
    IsFile(f, ".dvc/config") /\ ~ro /\ IsFile(f, data_path)
DvcAddEffect(f, data_path) ==
    [f EXCEPT ![PointerOf(data_path)] = File(TextOf(<<"outs:", "- md5: d41d8cd9">>))]

\* git add <path>, git commit -m <message>, dvc push: no effect on the paths modelled
GitPre(f) == IsDir(f, ".git")
DvcPushPre(f) == IsFile(f, ".dvc/config") /\ HasRemoteSection(f[".dvc/config"].text)

----------------------------------------------------------------------------
(* src/dvc_setup.py: class DVCSetup.  Every operator returns                *)
(* [fs, result, calls]; e1, e2 are the outcomes of its external commands.   *)

dvcignore_content ==
    TextOf(<<"# Ignore patterns for DVC", "*.pyc", "__pycache__/",
             ".ipynb_checkpoints/", ".DS_Store", "Thumbs.db", "*.log", "logs/",
             "reports/temp/", "models/temp/">>)

Out(f, r, cs) == [fs |-> f, result |-> r, calls |-> cs]

\* initialize_dvc: only FileNotFoundError is caught
InitializeDvc(f, e1, e2) ==
    LET c1 == Call("dvc", "init --no-scm", "root", e1, TRUE)
        c2 == Call("git", "init", "root", e2, FALSE)
        f1 == DvcInitEffect(f)
    IN IF e1 = "enoent" THEN Out(f, "False", <<c1>>)
       ELSE IF e1 = "exit1" THEN Out(f, "False", <<c1>>)
       ELSE IF Exists(f1, ".git") THEN Out(f1, "True", <<c1>>)
       ELSE IF e2 = "enoent" THEN Out(f1, "False", <<c1, c2>>)
       ELSE IF e2 = "exit0" THEN Out(GitInitEffect(f1), "True", <<c1, c2>>)
       ELSE Out(f1, "True", <<c1, c2>>)

\* create_dvcignore: no handler of its own
CreateDvcignore(st, ro) == WriteText(st, ro, ".dvcignore", dvcignore_content)

\* setup_local_remote(storage_path="dvc_storage"): except Exception -> False
SetupLocalRemote(f, ro, e1, e2) ==
    LET s0 == Mkdir(Ok(f), ro, "dvc_storage")
        c1 == Call("dvc", "remote add -d localstorage", "root", e1, TRUE)
        c2 == Call("dvc", "remote default localstorage", "root", e2, FALSE)
        f1 == DvcRemoteAddEffect(s0.fs)
        s1 == CreateDvcignore(Ok(f1), ro)
    IN IF s0.err # "none" THEN Out(s0.fs, "False", <<>>)
       ELSE IF e1 = "enoent" THEN Out(s0.fs, "False", <<c1>>)
       ELSE IF e1 = "exit1" THEN Out(s0.fs, "False", <<c1>>)
       ELSE IF e2 = "enoent" THEN Out(f1, "False", <<c1, c2>>)
       ELSE IF s1.err # "none" THEN Out(s1.fs, "False", <<c1, c2>>)
       ELSE Out(s1.fs, "True", <<c1, c2>>)

\* add_data_to_dvc(data_path)
AddDataToDvc(f, data_path, e1, e2) ==
    LET c1 == Call("dvc", "add", "root", e1, TRUE)
        c2 == Call("git", "add", "root", e2, FALSE)
        f1 == DvcAddEffect(f, data_path)
    IN IF ~Exists(f, data_path) THEN Out(f, "False", <<>>)
       ELSE IF e1 = "enoent" THEN Out(f, "False", <<c1>>)
       ELSE IF e1 = "exit1" THEN Out(f, "False", <<c1>>)
       ELSE IF e2 = "enoent" THEN Out(f1, "False", <<c1, c2>>)
       ELSE Out(f1, "True", <<c1, c2>>)

\* commit_changes(message)
CommitChanges(f, e1, e2) ==
    LET c1 == Call("git", "add", "root", e1, FALSE)
        c2 == Call("git", "commit -m", "root", e2, TRUE)
    IN IF e1 = "enoent" THEN Out(f, "False", <<c1>>)
       ELSE IF e2 = "enoent" THEN Out(f, "False", <<c1, c2>>)
       ELSE IF e2 = "exit0" THEN Out(f, "True", <<c1, c2>>)
       ELSE Out(f, "False", <<c1, c2>>)

PushToRemoteReportingSuccess(f, e1) ==
    Out(f, IF e1 = "enoent" THEN "False" ELSE "True",
        <<Call("dvc", "push", "root", e1, TRUE)>>)

\* push_to_remote
PushToRemote(f, e1) ==
    LET c1 == Call("dvc", "push", "root", e1, TRUE)
    IN IF e1 = "enoent" THEN Out(f, "False", <<c1>>)
       ELSE IF e1 = "exit0" THEN Out(f, "True", <<c1>>)
       ELSE Out(f, "False", <<c1>>)

----------------------------------------------------------------------------
(* The pipeline document.  A Python dict is a sequence of entries in        *)
(* insertion order; a stage is [name, fields], a field is [key, scalar,     *)
(* items] (scalar: the value is one string, not a list).                    *)

Field(key, scalar, items) == [key |-> key, scalar |-> scalar, items |-> items]
Stage(name, fields) == [name |-> name, fields |-> fields]

pipeline_config_eda_rewrites_cleaned_data ==
    <<Stage("load_data",
            <<Field("cmd", TRUE, <<"python src/pipeline/load_data.py">>),
              Field("deps", FALSE, <<"src/pipeline/load_data.py",
                                     "data/raw/MachineLearningRating_v3.txt">>),
              Field("outs", FALSE, <<"data/processed/cleaned_data.csv",
                                     "data/processed/data_info.json">>)>>),
      Stage("eda",
            <<Field("cmd", TRUE, <<"python src/pipeline/eda_pipeline.py">>),
              Field("deps", FALSE, <<"src/pipeline/eda_pipeline.py",
                                     "data/processed/cleaned_data.csv">>),
              Field("outs", FALSE, <<"reports/eda_report.html",
                                     "data/processed/cleaned_data.csv">>)>>)>>

\* the literal of create_dvc_pipeline, pipeline_config['stages']
pipeline_config ==
    <<Stage("load_data",
            <<Field("cmd", TRUE, <<"python src/pipeline/load_data.py">>),
              Field("deps", FALSE, <<"src/pipeline/load_data.py",
                                     "data/raw/MachineLearningRating_v3.txt">>),
              Field("outs", FALSE, <<"data/processed/cleaned_data.csv",
                                     "data/processed/data_info.json">>),
              Field("metrics", FALSE, <<"reports/load_metrics.json">>),
              Field("plots", FALSE, <<"reports/data_summary.html">>)>>),
      Stage("eda",
            <<Field("cmd", TRUE, <<"python src/pipeline/eda_pipeline.py">>),
              Field("deps", FALSE, <<"src/pipeline/eda_pipeline.py",
                                     "data/processed/cleaned_data.csv">>),
              Field("outs", FALSE, <<"reports/eda_report.html", "reports/figures/">>),
              Field("metrics", FALSE, <<"reports/eda_metrics.json">>),
              Field("params", FALSE, <<"params/eda_params.yaml">>)>>),
      Stage("preprocess",
            <<Field("cmd", TRUE, <<"python src/pipeline/preprocess.py">>),
              Field("deps", FALSE, <<"src/pipeline/preprocess.py",
                                     "data/processed/cleaned_data.csv",
                                     "params/preprocess_params.yaml">>),
              Field("outs", FALSE, <<"data/processed/train.csv",
                                     "data/processed/test.csv",
                                     "models/preprocessor.pkl">>)>>)>>

\* Python's str ordering on the mapping keys that occur
KeyOrder == <<"cmd", "deps", "eda", "load_data", "metrics", "outs", "params",
              "plots", "preprocess", "stages">>
KeyRank(k) == CHOOSE i \in 1..Len(KeyOrder) : KeyOrder[i] = k
KeyLess(a, b) == KeyRank(a) < KeyRank(b)

\* sorted(mapping.items()): insertion sort by key
RECURSIVE InsertByKey(_, _, _)
InsertByKey(e, k, sorted) ==
    IF sorted = <<>> THEN <<e>>
    ELSE IF KeyLess(k, IF "name" \in DOMAIN Head(sorted)
                       THEN Head(sorted).name ELSE Head(sorted).key)
         THEN <<e>> \o sorted
    ELSE <<Head(sorted)>> \o InsertByKey(e, k, Tail(sorted))

RECURSIVE SortStages(_)
SortStages(stages) ==
    IF stages = <<>> THEN <<>>
    ELSE InsertByKey(Head(stages), Head(stages).name, SortStages(Tail(stages)))

RECURSIVE SortFields(_)
SortFields(fields) ==
    IF fields = <<>> THEN <<>>
    ELSE InsertByKey(Head(fields), Head(fields).key, SortFields(Tail(fields)))

RECURSIVE DumpItems(_, _)
DumpItems(ind, items) ==
    IF items = <<>> THEN <<>>
    ELSE <<Line(ind, "item", "", Head(items))>> \o DumpItems(ind, Tail(items))

RECURSIVE DumpFields(_)
DumpFields(fields) ==
    IF fields = <<>> THEN <<>>
    ELSE LET fd == Head(fields)
         IN (IF fd.scalar THEN <<Line(4, "kv", fd.key, fd.items[1])>>
             ELSE <<Line(4, "key", fd.key, "")>> \o DumpItems(4, fd.items))
            \o DumpFields(Tail(fields))

RECURSIVE DumpStages(_)
DumpStages(stages) ==
    IF stages = <<>> THEN <<>>
    ELSE <<Line(2, "key", Head(stages).name, "")>>
         \o DumpFields(SortFields(Head(stages).fields))
         \o DumpStages(Tail(stages))

\* yaml.dump({'stages': ...}, default_flow_style=False); sort_keys is left at
\* its default (True), so every mapping is written with its keys sorted.
YamlDump(stages) == <<Line(0, "key", "stages", "")>> \o DumpStages(SortStages(stages))

\* yaml.safe_load of such a document: mappings keep the document's order
RECURSIVE LoadItems(_, _)
LoadItems(text, j) ==
    IF j > Len(text) \/ text[j].kind # "item" THEN <<>>
    ELSE <<text[j].v>> \o LoadItems(text, j + 1)

RECURSIVE LoadFields(_, _)
LoadFields(text, j) ==
    IF j > Len(text) \/ text[j].ind < 4 THEN <<>>
    ELSE IF text[j].kind = "kv"
         THEN <<Field(text[j].k, TRUE, <<text[j].v>>)>> \o LoadFields(text, j + 1)
    ELSE IF text[j].kind = "key"
         THEN <<Field(text[j].k, FALSE, LoadItems(text, j + 1))>>
              \o LoadFields(text, j + 1)
    ELSE LoadFields(text, j + 1)

RECURSIVE LoadStages(_, _)
LoadStages(text, j) ==
    IF j > Len(text) THEN <<>>
    ELSE IF text[j].ind = 2 /\ text[j].kind = "key"
         THEN <<Stage(text[j].k, LoadFields(text, j + 1))>> \o LoadStages(text, j + 1)
    ELSE LoadStages(text, j + 1)

YamlLoad(text) ==
    IF text # <<>> /\ text[1] = Line(0, "key", "stages", "")
    THEN LoadStages(text, 2)
    ELSE <<>>

\* yaml.dump(eda_params) and yaml.dump(preprocess_params), as written
eda_params ==
    TextOf(<<"analysis:", "  correlation_threshold: 0.7", "  outlier_threshold: 3.0",
             "visualization:", "  color_palette: husl", "  dpi: 100", "  figsize:",
             "  - 12", "  - 8">>)
preprocess_params ==
    TextOf(<<"encoding:", "  max_categories: 20", "  method: onehot", "imputation:",
             "  strategy: median", "split:", "  random_state: 42", "  test_size: 0.2">>)

\* create_dvc_pipeline: except Exception -> False
CreateDvcPipeline(f, ro) ==
    LET s1 == WriteText(Ok(f), ro, "dvc.yaml", YamlDump(pipeline_config))
        s2 == Mkdir(s1, ro, "params")
        s3 == WriteText(s2, ro, "params/eda_params.yaml", eda_params)
        s4 == WriteText(s3, ro, "params/preprocess_params.yaml", preprocess_params)
    IN Out(s4.fs, IF s4.err = "none" THEN "True" ELSE "False", <<>>)

----------------------------------------------------------------------------
(* verify_dvc_setup *)

Report(inst, init, remote, tracked, gitint) ==
    [dvc_installed |-> inst, dvc_initialized |-> init, remote_configured |-> remote,
     data_tracked |-> tracked, git_integrated |-> gitint]

verification == Report(FALSE, FALSE, FALSE, FALSE, FALSE)

VerifyDvcSetupCachingReport(f, procCwd, e1) ==
    [fs |-> IF IsDir(f, ".dvc/tmp") THEN [f EXCEPT ![".dvc/lock"] = File(<<>>)] ELSE f,
     result |-> "report",
     calls |-> <<Call("dvc", "--version", procCwd, e1, TRUE)>>,
     report |-> verification]

VerifyDvcSetupIgnoringReturncode(f, procCwd, e1) ==
    LET init == Exists(f, ".dvc/config")
        readable == IsFile(f, ".dvc/config")
        rep == IF e1 = "enoent" THEN verification
               ELSE IF init /\ ~readable THEN Report(TRUE, init, FALSE, FALSE, FALSE)
               ELSE Report(TRUE, init,
                           init /\ HasRemoteSection(f[".dvc/config"].text),
                           GlobRootDvc(f) # {}, Exists(f, ".git"))
    IN [fs |-> f, result |-> "report",
        calls |-> <<Call("dvc", "--version", procCwd, e1, TRUE)>>, report |-> rep]

\* The dvc --version call is given no cwd: it runs in the process's directory.
\* An exception anywhere returns the mapping as filled in so far.
VerifyDvcSetup(f, procCwd, e1) ==
    LET c1 == Call("dvc", "--version", procCwd, e1, TRUE)
        inst == (e1 = "exit0")
        init == Exists(f, ".dvc/config")
        readable == IsFile(f, ".dvc/config")
        remote == init /\ readable /\ HasRemoteSection(f[".dvc/config"].text)
        tracked == GlobRootDvc(f) # {}
        gitint == Exists(f, ".git")
        rep == IF e1 = "enoent" THEN verification
               ELSE IF init /\ ~readable THEN Report(inst, init, FALSE, FALSE, FALSE)
               ELSE Report(inst, init, remote, tracked, gitint)
    IN [fs |-> f, result |-> "report", calls |-> <<c1>>, report |-> rep]

----------------------------------------------------------------------------
(* The state machine. *)

EmptyWorkspace == [p \in Paths |-> IF p = ROOT THEN Dir ELSE Absent]
NoWorkspace == [p \in Paths |-> Absent]
ForeignText == TextOf(<<"written by someone else">>)

\* Workspaces a run can start in: the project root with or without its data
\* files, with a foreign file in the scaffold's place, or no root at all.
WithData ==
    [EmptyWorkspace EXCEPT ![RootDataPath] = File(ForeignText), !["data"] = Dir,
                           ![SubdirDataPath] = File(ForeignText)]
InitWorkspaces ==
    {NoWorkspace, EmptyWorkspace, WithData,
     [EmptyWorkspace EXCEPT ![DVC_DIR] = File(ForeignText)]}

Init ==
    /\ fs \in InitWorkspaces
    /\ readonly \in BOOLEAN
    /\ dvc \in ToolStates
    /\ git \in GitStates
    /\ lastOp = "none"
    /\ result = "none"
    /\ calls = <<>>
    /\ report = verification

Returned(op, out) ==
    /\ lastOp' = op
    /\ fs' = out.fs
    /\ result' = out.result
    /\ calls' = out.calls
    /\ UNCHANGED <<readonly, dvc, git>>

create_dvc_directory ==
    /\ Returned("create_dvc_directory", CreateDvcDirectory(fs, readonly))
    /\ report' = verification

initialize_dvc ==
    \E e1 \in Outcomes(dvc, IsDir(fs, ROOT), DvcInitPre(fs, readonly)),
       e2 \in Outcomes(git, IsDir(fs, ROOT), GitInitPre(fs, readonly)) :
        /\ Returned("initialize_dvc", InitializeDvc(fs, e1, e2))
        /\ report' = verification

setup_local_remote ==
    \E e1 \in Outcomes(dvc, IsDir(fs, ROOT), DvcRemoteAddPre(fs, readonly)),
       e2 \in Outcomes(dvc, IsDir(fs, ROOT),
                       DvcRemoteDefaultPre(DvcRemoteAddEffect(fs), readonly)) :
        /\ Returned("setup_local_remote", SetupLocalRemote(fs, readonly, e1, e2))
        /\ report' = verification

create_dvcignore ==
    LET st == CreateDvcignore(Ok(fs), readonly)
    IN /\ Returned("create_dvcignore",
                   Out(st.fs, IF st.err = "none" THEN "None" ELSE "raise", <<>>))
       /\ report' = verification

add_data_to_dvc ==
    \E data_path \in DataPaths :
    \E e1 \in Outcomes(dvc, IsDir(fs, ROOT), DvcAddPre(fs, readonly, data_path)),
       e2 \in Outcomes(git, IsDir(fs, ROOT), GitPre(fs)) :
        /\ Returned("add_data_to_dvc", AddDataToDvc(fs, data_path, e1, e2))
        /\ report' = verification

commit_changes ==
    \E e1 \in Outcomes(git, IsDir(fs, ROOT), GitPre(fs)),
       e2 \in Outcomes(git, IsDir(fs, ROOT), GitPre(fs)) :
        /\ Returned("commit_changes", CommitChanges(fs, e1, e2))
        /\ report' = verification

push_to_remote ==
    \E e1 \in Outcomes(dvc, IsDir(fs, ROOT), DvcPushPre(fs)) :
        /\ Returned("push_to_remote", PushToRemote(fs, e1))
        /\ report' = verification

create_dvc_pipeline ==
    /\ Returned("create_dvc_pipeline", CreateDvcPipeline(fs, readonly))
    /\ report' = verification

verify_dvc_setup ==
    \E procCwd \in ProcCwds, e1 \in VersionOutcomes(dvc) :
        LET out == VerifyDvcSetup(fs, procCwd, e1)
        IN /\ Returned("verify_dvc_setup", out)
           /\ report' = out.report

\* An environment step is no operation of the program: nothing was returned.
Forgotten ==
    /\ lastOp' = "env"
    /\ result' = "none"
    /\ calls' = <<>>
    /\ report' = verification

\* The environment: a program is installed, broken or removed.
tools_change ==
    /\ \E d \in ToolStates, g \in GitStates :
        /\ <<d, g>> # <<dvc, git>>
        /\ dvc' = d
        /\ git' = g
    /\ Forgotten
    /\ UNCHANGED <<fs, readonly>>

\* The environment: someone else rewrites a file of the scaffold.
EditablePaths == {".dvc/config", ".dvc/lock"}
external_edit ==
    /\ ~readonly
    /\ \E p \in EditablePaths :
        /\ IsFile(fs, p)
        /\ fs[p].text # ForeignText
        /\ fs' = [fs EXCEPT ![p] = File(ForeignText)]
    /\ Forgotten
    /\ UNCHANGED <<readonly, dvc, git>>

Next ==
    \/ create_dvc_directory
    \/ initialize_dvc
    \/ setup_local_remote
    \/ create_dvcignore
    \/ add_data_to_dvc
    \/ commit_changes
    \/ push_to_remote
    \/ create_dvc_pipeline
    \/ verify_dvc_setup
    \/ tools_change
    \/ external_edit

Spec == Init /\ [][Next]_vars

----------------------------------------------------------------------------
(* The scripts run from the project root: setup_dvc.py create_dvc_artifacts   *)
(* and the pipeline stage src/pipeline/load_data.py.                          *)

\* shutil.copytree(".dvc", artifacts_dir / ".dvc", dirs_exist_ok=True): the
\* entries of the tree, a directory before what it holds
DvcTree == <<DVC_DIR, ".dvc/plots", ".dvc/plots/confusion.json", ".dvc/tmp",
             ".dvc/.gitignore", ".dvc/config", ".dvc/state", ".dvc/state-journal",
             ".dvc/state-wal", ".dvc/lock">>

CopyEntry(st, ro, p) ==
    IF st.err # "none" \/ ~Exists(st.fs, p) THEN st
    ELSE IF IsDir(st.fs, p) THEN Mkdir(st, ro, ArtOf(p))
    ELSE CopyFile(st, ro, p, ArtOf(p))

RECURSIVE CopyEntries(_, _, _)
CopyEntries(st, ro, entries) ==
    IF entries = <<>> THEN st
    ELSE CopyEntries(CopyEntry(st, ro, Head(entries)), ro, Tail(entries))

CopyTree(st, ro) ==
    IF st.err # "none" THEN st
    ELSE IF ~Exists(st.fs, DVC_DIR) THEN Err(st.fs, "FileNotFoundError")
    ELSE IF ~IsDir(st.fs, DVC_DIR) THEN Err(st.fs, "NotADirectoryError")
    ELSE CopyEntries(st, ro, DvcTree)

CopyOptionalUnchecked(st, ro, file) ==
    CopyFile(MkdirParents(st, ro, Parent(ArtOf(file))), ro, file, ArtOf(file))

\* one turn of "for file in dvc_files": a file that does not exist is skipped
CopyOptional(st, ro, file) ==
    IF st.err # "none" THEN st
    ELSE IF Exists(st.fs, file)
         THEN CopyFile(MkdirParents(st, ro, Parent(ArtOf(file))), ro, file, ArtOf(file))
    ELSE st

RECURSIVE CopyOptionals(_, _, _)
CopyOptionals(st, ro, files) ==
    IF files = <<>> THEN st
    ELSE CopyOptionals(CopyOptional(st, ro, Head(files)), ro, Tail(files))

\* create_dvc_artifacts, to the end of its copy loop: "copied" when the loop
\* was left normally, "raise" when a step raised (nothing catches it)
CreateDvcArtifacts(f, ro) ==
    LET s0 == MkdirParents(Ok(f), ro, artifacts_dir)
        s1 == CopyTree(s0, ro)
        s2 == CopyOptionals(s1, ro, dvc_files)
    IN Out(s2.fs, IF s2.err = "none" THEN "copied" ELSE "raise", <<>>)

\* what load_and_clean_data writes: df.to_csv, json.dump(info), json.dump(metrics)
cleaned_csv == TextOf(<<"columns of the frame, comma separated", "rows of the frame">>)
info == TextOf(<<"{", "    \"shape\": [rows, columns],", "    \"columns\": [...],",
                 "    \"missing_percentage\": {...}", "}">>)
metrics == TextOf(<<"{", "    \"rows_loaded\": rows,", "    \"columns_loaded\": columns,",
                    "    \"memory_mb\": mb", "}">>)

\* load_and_clean_data: returns None, or is left through an exception;
\* pd.read_csv raises when raw_path cannot be read (the retry without the
\* delimiter raises again)
LoadAndCleanData(f, ro) ==
    LET s0 == IF IsFile(f, raw_path) THEN Ok(f) ELSE Err(f, "FileNotFoundError")
        s1 == MkdirParents(s0, ro, "data/processed")
        s2 == WriteText(s1, ro, "data/processed/cleaned_data.csv", cleaned_csv)
        s3 == WriteText(s2, ro, "data/processed/data_info.json", info)
        s4 == MkdirParents(s3, ro, "reports")
        s5 == WriteText(s4, ro, "reports/load_metrics.json", metrics)
    IN Out(s5.fs, IF s5.err = "none" THEN "None" ELSE "raise", <<>>)

\* The content of an optional file as the program (or dvc add) writes it.
ContentOf(file) ==
    CASE file = ".dvcignore" -> dvcignore_content
      [] file = "dvc.yaml" -> YamlDump(pipeline_config)
      [] file = "params/eda_params.yaml" -> eda_params
      [] file = "params/preprocess_params.yaml" -> preprocess_params
      [] OTHER -> TextOf(<<"outs:", "- md5: d41d8cd9">>)

\* A project root holding the scaffold or not, any subset of the optional
\* files, and the raw data or not.
ScriptWorkspace(hasDvc, opt, hasRaw) ==
    LET base == IF hasDvc THEN CreateDvcDirectory(EmptyWorkspace, FALSE).fs
                ELSE EmptyWorkspace
        tracked == PointerOf(SubdirDataPath) \in opt
    IN [p \in Paths |->
          IF p \in opt THEN File(ContentOf(p))
          ELSE IF p = "params" /\ opt \cap ParamsChildren # {} THEN Dir
          ELSE IF p = "data" /\ (tracked \/ hasRaw) THEN Dir
          ELSE IF p = SubdirDataPath /\ tracked THEN File(ForeignText)
          ELSE IF p = "data/raw" /\ hasRaw THEN Dir
          ELSE IF p = raw_path /\ hasRaw THEN File(ForeignText)
          ELSE base[p]]

ScriptWorkspaces ==
    {ScriptWorkspace(hasDvc, opt, hasRaw) :
        hasDvc \in BOOLEAN, opt \in SUBSET OptionalFiles, hasRaw \in BOOLEAN}

InitScripts ==
    /\ fs \in ScriptWorkspaces
    /\ readonly \in BOOLEAN
    /\ dvc = "ok"
    /\ git = "ok"
    /\ lastOp = "none"
    /\ result = "none"
    /\ calls = <<>>
    /\ report = verification

create_dvc_artifacts ==
    /\ Returned("create_dvc_artifacts", CreateDvcArtifacts(fs, readonly))
    /\ report' = verification

load_and_clean_data ==
    /\ Returned("load_and_clean_data", LoadAndCleanData(fs, readonly))
    /\ report' = verification

NextScripts ==
    \/ create_dvc_artifacts
    \/ load_and_clean_data

SpecScripts == InitScripts /\ [][NextScripts]_vars

----------------------------------------------------------------------------
(* Properties. *)

FacadeOps == {"initialize_dvc", "setup_local_remote", "add_data_to_dvc",
              "commit_changes", "push_to_remote"}

\* How an operation's external commands ended: "unavailable" if one could not
\* be executed, else "nonzero" / "success" by the exit status the code tests.
Kind(cs) ==
    IF \E i \in 1..Len(cs) : cs[i].exit = "enoent" THEN "unavailable"
    ELSE IF \E i \in 1..Len(cs) : cs[i].checked /\ cs[i].exit = "exit1" THEN "nonzero"
    ELSE IF \E i \in 1..Len(cs) : cs[i].checked /\ cs[i].exit = "exit0" THEN "success"
    ELSE "none"

\* How the operation went on after a command: an exit status it never tests
\* is taken for success.
Treated(c) ==
    IF c.exit = "enoent" THEN "unavailable"
    ELSE IF c.checked /\ c.exit = "exit1" THEN "failure"
    ELSE "success"

\* No scaffold in the workspace: no .dvc, so no .dvc/config; no *.dvc file; no .git.
NoScaffold(f) ==
    /\ ~Exists(f, DVC_DIR)
    /\ ~Exists(f, ".dvc/config")
    /\ \A p \in NameEndsWithDvc : ~IsFile(f, p)
    /\ ~Exists(f, ".git")

\* C1 (as amended): verify_dvc_setup on a workspace without scaffold returns the
\* report (it does not raise) with dvc_initialized, remote_configured,
\* data_tracked and git_integrated false; dvc_installed is true exactly when
\* dvc --version was executed and exited zero.
C1_NoScaffoldReport ==
    (lastOp = "verify_dvc_setup" /\ NoScaffold(fs)) =>
        /\ result = "report"
        /\ ~report.dvc_initialized
        /\ ~report.remote_configured
        /\ ~report.data_tracked
        /\ ~report.git_integrated
        /\ report.dvc_installed <=> (calls[1].exit = "exit0")

C1_Witness ==
    /\ lastOp = "verify_dvc_setup"
    /\ NoScaffold(fs)
    /\ IsDir(fs, ROOT)
    /\ report.dvc_installed

\* C1 as stated: on a workspace without scaffold every one of the five flags is
\* false, whether or not dvc can be executed.
C1_AllFlagsFalse ==
    (lastOp = "verify_dvc_setup" /\ NoScaffold(fs)) => report = verification

\* C2 as stated: a facade operation one of whose external commands exited
\* non-zero or could not be executed returns False, and no command that failed
\* is invoked again.
C2_FailuresReported ==
    lastOp \in FacadeOps =>
        /\ (\E i \in 1..Len(calls) : calls[i].exit # "exit0") => result = "False"
        /\ \A i \in 1..Len(calls) : \A j \in (i + 1)..Len(calls) :
               calls[i].exit # "exit0" =>
                   <<calls[i].prog, calls[i].args>> # <<calls[j].prog, calls[j].args>>

\* C3 (as amended): a facade operation returns one of two values; it returns
\* False both when the command whose status it tests exited non-zero and when a
\* command could not be executed, and True only when the tested command exited
\* zero: the two failures are told apart from success, not from each other.
C3_TwoValuedResult ==
    lastOp \in FacadeOps =>
        /\ result \in {"True", "False"}
        /\ Kind(calls) \in {"nonzero", "unavailable"} => result = "False"
        /\ result = "True" => Kind(calls) = "success"

C3_Witness ==
    /\ lastOp = "initialize_dvc"
    /\ Kind(calls) = "unavailable"
    /\ calls[1].exit = "exit0"
    /\ result = "False"

\* C3 as stated: the results for success, for a non-zero exit and for a program
\* that cannot be executed are pairwise distinguishable: two facade calls that
\* end in different ones of these return different results.
C3_TriState ==
    [][(/\ lastOp \in FacadeOps
        /\ lastOp' \in FacadeOps
        /\ Kind(calls) # "none"
        /\ Kind(calls') # "none"
        /\ Kind(calls) # Kind(calls'))
       => result' # result]_vars

\* C4 as stated: no operation is left through an uncaught exception.
C4_NoUncaughtException == result # "raise"

\* What create_dvc_directory leaves behind when it returns True.
Scaffolded(f) ==
    /\ IsDir(f, DVC_DIR) /\ IsDir(f, ".dvc/plots") /\ IsDir(f, ".dvc/tmp")
    /\ f[".dvc/.gitignore"] = File(gitignore_content)
    /\ f[".dvc/config"] = File(config_content)
    /\ f[".dvc/state"] = File(state_content)
    /\ f[".dvc/plots/confusion.json"] = File(plot_template)
    /\ \A i \in 1..Len(MarkerFiles) : IsFile(f, MarkerFiles[i])

C6_VerifyReadOnly ==
    [][(lastOp' = "verify_dvc_setup") =>
          /\ fs' = fs
          /\ (lastOp = "verify_dvc_setup") => report' = report]_vars

C6_Witness ==
    /\ lastOp = "verify_dvc_setup"
    /\ IsDir(fs, ".dvc/tmp")
    /\ ~Exists(fs, ".dvc/lock")
    /\ report.dvc_initialized

StageNames(stages) == [i \in 1..Len(stages) |-> stages[i].name]
ListKeys == {"deps", "outs", "metrics", "plots", "params"}
\* the list a stage holds under a key (empty if it has none)
ItemsOf(stage, key) ==
    IF \E i \in 1..Len(stage.fields) : stage.fields[i].key = key
    THEN stage.fields[CHOOSE i \in 1..Len(stage.fields) : stage.fields[i].key = key].items
    ELSE <<>>
StageNamed(stages, name) == stages[CHOOSE i \in 1..Len(stages) : stages[i].name = name]
HasStage(stages, name) == \E i \in 1..Len(stages) : stages[i].name = name

\* every list of every declared stage comes back with the same items, in order
ListsPreserved(loaded) ==
    \A i \in 1..Len(pipeline_config) :
        /\ HasStage(loaded, pipeline_config[i].name)
        /\ \A key \in ListKeys :
               ItemsOf(StageNamed(loaded, pipeline_config[i].name), key)
                   = ItemsOf(pipeline_config[i], key)

\* C7 as stated: the pipeline read back from dvc.yaml has the stage names in the
\* order of declaration (load_data, eda, preprocess) and every per-stage list
\* identical in content and order.
C7_RoundTrip ==
    IsFile(fs, "dvc.yaml") =>
        LET loaded == YamlLoad(fs["dvc.yaml"].text)
        IN /\ StageNames(loaded) = <<"load_data", "eda", "preprocess">>
           /\ ListsPreserved(loaded)
           /\ ItemsOf(StageNamed(loaded, "eda"), "deps")
                  = <<"src/pipeline/eda_pipeline.py", "data/processed/cleaned_data.csv">>

\* C8 as stated: each workspace flag of the report says what the workspace
\* holds, whether or not dvc is available.
C8_FlagsMatchWorkspace ==
    lastOp = "verify_dvc_setup" =>
        /\ report.dvc_initialized <=> Exists(fs, ".dvc/config")
        /\ report.remote_configured <=>
               (IsFile(fs, ".dvc/config") /\ HasRemoteSection(fs[".dvc/config"].text))
        /\ report.data_tracked <=>
               (\E p \in RootChildren : p \in NameEndsWithDvc /\ IsFile(fs, p))
        /\ report.git_integrated <=> Exists(fs, ".git")

\* C9 as stated: every dvc invocation runs in the workspace root and is taken
\* for successful exactly when it exits zero.
C9_DvcCallsInRoot ==
    \A i \in 1..Len(calls) :
        calls[i].prog = "dvc" =>
            /\ calls[i].cwd = "root"
            /\ (Treated(calls[i]) = "success") <=> (calls[i].exit = "exit0")

RECURSIVE SeqToSet(_)
SeqToSet(q) == IF q = <<>> THEN {} ELSE {Head(q)} \cup SeqToSet(Tail(q))

Outputs(stage) ==
    SeqToSet(ItemsOf(stage, "outs")) \cup SeqToSet(ItemsOf(stage, "metrics"))
        \cup SeqToSet(ItemsOf(stage, "plots"))
Deps(stage) == SeqToSet(ItemsOf(stage, "deps"))
DependsOn(stages, i, j) == Deps(stages[i]) \cap Outputs(stages[j]) # {}

\* the stages reachable from i along "depends on" in 1..k steps
RECURSIVE ReachableIn(_, _, _)
ReachableIn(stages, i, k) ==
    IF k = 0 THEN {}
    ELSE LET direct == {j \in 1..Len(stages) : DependsOn(stages, i, j)}
         IN direct \cup UNION {ReachableIn(stages, j, k - 1) : j \in direct}

WellFormedPipeline(stages) ==
    LET n == Len(stages)
    IN /\ \A i \in 1..n : \A j \in 1..n : i # j => stages[i].name # stages[j].name
       /\ \A i \in 1..n : \A d \in Deps(stages[i]) :
              \/ \A j \in 1..n : d \notin Outputs(stages[j])
              \/ \E j \in 1..n : j # i /\ d \in Outputs(stages[j])
       /\ \A i \in 1..n : \A j \in 1..n :
              i # j => Outputs(stages[i]) \cap Outputs(stages[j]) = {}
       /\ \A i \in 1..n : i \notin ReachableIn(stages, i, n)

\* C10: in the pipeline create_dvc_pipeline writes, stage names are unique, every
\* dependency is a raw input or an output of another stage, no path is an output
\* of two stages and "depends on an output of" has no cycle.
C10_PipelineWellFormed ==
    IsFile(fs, "dvc.yaml") =>
        /\ Len(YamlLoad(fs["dvc.yaml"].text)) = Len(pipeline_config)
        /\ WellFormedPipeline(YamlLoad(fs["dvc.yaml"].text))

C10_Witness ==
    /\ lastOp = "create_dvc_pipeline"
    /\ result = "True"
    /\ IsFile(fs, "dvc.yaml")

C13_TrueIffDvcInitZero ==
    lastOp = "initialize_dvc" =>
        (result = "True" <=> (calls[1].exit = "exit0"))

\* C11: create_dvc_artifacts, once .dvc is copied, copies every optional file
\* that exists to the same relative path under artifacts/dvc_setup and skips
\* every one that is missing, for every subset of them; a missing optional file
\* does not make the run fail (with .dvc a directory and the workspace
\* writable, the copy loop is left normally).
C11_BestEffortCopy ==
    [][(lastOp' = "create_dvc_artifacts") =>
          /\ (IsDir(fs, DVC_DIR) /\ ~readonly) => result' = "copied"
          /\ (result' = "copied") =>
                \A file \in OptionalFiles :
                    IF Exists(fs, file)
                    THEN fs'[ArtOf(file)] = fs[file]
                    ELSE fs'[ArtOf(file)] = fs[ArtOf(file)] /\ ~Exists(fs', ArtOf(file))
      ]_vars

C11_Witness ==
    /\ lastOp = "create_dvc_artifacts"
    /\ result = "copied"
    /\ IsFile(fs, "dvc.yaml") /\ fs[ArtOf("dvc.yaml")] = fs["dvc.yaml"]
    /\ IsFile(fs, "params/eda_params.yaml")
    /\ fs[ArtOf("params/eda_params.yaml")] = fs["params/eda_params.yaml"]
    /\ ~Exists(fs, ".dvcignore") /\ ~Exists(fs, ArtOf(".dvcignore"))
    /\ ~Exists(fs, PointerOf(SubdirDataPath))
    /\ ~Exists(fs, ArtOf(PointerOf(SubdirDataPath)))

\* C14 as stated: when load_and_clean_data has completed without error, every
\* path the pipeline declares for stage load_data under outs, metrics and plots
\* has been written, and the raw input it read is one of the stage's deps.
C14_DeclaredOutputsWritten ==
    (lastOp = "load_and_clean_data" /\ result = "None") =>
        /\ \A p \in Outputs(StageNamed(pipeline_config, "load_data")) : IsFile(fs, p)
        /\ raw_path \in Deps(StageNamed(pipeline_config, "load_data"))

====
